---- MODULE Spec2Model ----
(***************************************************************************)
(* Model of the Serenity Student backend (App/backend/server.py): the      *)
(* sentiment extractor analyze_sentiment, the journal and chat handlers    *)
(* that persist its result, the mood check-in handler and the analytics    *)
(* handler get_user_stats.                                                 *)
(*                                                                         *)
(* Text is modelled as a sequence of one-character strings, so that strip, *)
(* split, startswith, lower and float act on characters as they do in the  *)
(* code.  Real numbers are fixed point: a mood score and an average are    *)
(* integers counting tenths (5.0 is 50).                                   *)
(***************************************************************************)
EXTENDS Integers, Sequences, FiniteSets, TLC

VARIABLES
    journal_entries,  \* db.journal_entries, in insertion order
    chat_messages,    \* db.chat_messages, in insertion order
    mood_checkins,    \* db.mood_checkins, in insertion order
    now,              \* the wall clock read by datetime.now(timezone.utc)
    req,              \* the request handlers in flight: position and locals
    stats             \* the response of the latest get_user_stats request

vars == <<journal_entries, chat_messages, mood_checkins, now, req, stats>>

----------------------------------------------------------------------------
(* Bounds of the model *)

MaxReqs == 2      \* journal and chat requests (handlers may overlap)
MaxLines == 2     \* lines of a Gateway reply
MaxUsec == 1      \* microsecond values of the clock within one second
MaxHist == 10     \* check-ins already stored when the analytics runs begin
MaxNew == 2       \* mood check-in requests made during a run

Reqs == 1..MaxReqs
Users == {"u1", "u2"}
Contents == {"c1"}

----------------------------------------------------------------------------
(* Characters and the str methods the code uses *)

Whitespace == {" ", "\n"}

UpperLetters == <<"A","B","C","D","E","F","G","H","I","J","K","L","M",
                  "N","O","P","Q","R","S","T","U","V","W","X","Y","Z">>
LowerLetters == <<"a","b","c","d","e","f","g","h","i","j","k","l","m",
                  "n","o","p","q","r","s","t","u","v","w","x","y","z">>

LowerChar(c) ==
    IF \E i \in 1..Len(UpperLetters) : UpperLetters[i] = c
    THEN LowerLetters[CHOOSE i \in 1..Len(UpperLetters) : UpperLetters[i] = c]
    ELSE c

\* str.lower()
lower(s) == [i \in 1..Len(s) |-> LowerChar(s[i])]

RECURSIVE lstrip(_)
lstrip(s) == IF s # <<>> /\ Head(s) \in Whitespace THEN lstrip(Tail(s)) ELSE s

RECURSIVE rstrip(_)
rstrip(s) ==
    IF s # <<>> /\ s[Len(s)] \in Whitespace
    THEN rstrip(SubSeq(s, 1, Len(s) - 1))
    ELSE s

\* str.strip()
strip(s) == rstrip(lstrip(s))

\* str.startswith(p)
startswith(s, p) == Len(s) >= Len(p) /\ SubSeq(s, 1, Len(p)) = p

\* index of the first occurrence of character c in s, 0 when there is none
find(s, c) ==
    IF \E i \in 1..Len(s) : s[i] = c
    THEN CHOOSE i \in 1..Len(s) : s[i] = c /\ \A j \in 1..(i - 1) : s[j] # c
    ELSE 0

\* str.split(sep): the pieces between the occurrences of sep, <<s>> when none
RECURSIVE split(_, _)
split(s, sep) ==
    IF find(s, sep) = 0
    THEN <<s>>
    ELSE <<SubSeq(s, 1, find(s, sep) - 1)>>
             \o split(SubSeq(s, find(s, sep) + 1, Len(s)), sep)

\* line.split(':', 1)[1] for a line that holds a colon: what follows the first
after_colon(line) == SubSeq(line, find(line, ":") + 1, Len(line))

Digits == <<"0","1","2","3","4","5","6","7","8","9">>
IsDigit(c) == \E i \in 1..Len(Digits) : Digits[i] = c
DigitVal(c) == (CHOOSE i \in 1..Len(Digits) : Digits[i] = c) - 1

RECURSIVE NatVal(_)
NatVal(s) == IF s = <<>> THEN 0 ELSE 10 * NatVal(SubSeq(s, 1, Len(s) - 1)) + DigitVal(s[Len(s)])

AllDigits(s) == s # <<>> /\ \A i \in 1..Len(s) : IsDigit(s[i])

\* float(s) for decimal literals [-]d+[.d]: the value in tenths, or a ValueError.
\* Every text of the model outside this grammar is one float() rejects too.
float(s) ==
    LET neg == s # <<>> /\ Head(s) = "-"
        body == IF neg THEN Tail(s) ELSE s
        dot == find(body, ".")
        whole == IF dot = 0 THEN body ELSE SubSeq(body, 1, dot - 1)
        frac == IF dot = 0 THEN <<>> ELSE SubSeq(body, dot + 1, Len(body))
        ok == AllDigits(whole) /\ (frac = <<>> \/ (Len(frac) = 1 /\ IsDigit(frac[1])))
        mag == 10 * NatVal(whole) + (IF frac = <<>> THEN 0 ELSE DigitVal(frac[1]))
    IN IF ok THEN [ok |-> TRUE, value |-> IF neg THEN 0 - mag ELSE mag]
             ELSE [ok |-> FALSE, value |-> 0]

----------------------------------------------------------------------------
(* analyze_sentiment *)

SentimentPrefix == <<"S","e","n","t","i","m","e","n","t",":">>
MoodScorePrefix == <<"M","o","o","d"," ","S","c","o","r","e",":">>
InsightPrefix == <<"I","n","s","i","g","h","t",":">>
StressPrefix == <<"S","t","r","e","s","s"," ","I","n","d","i","c","a","t","o","r","s",":">>

neutral == <<"n","e","u","t","r","a","l">>
none == <<"n","o","n","e">>

\* 5.0, the default mood score, in tenths
DefaultMoodScore == 50

\* The two fallback sentences, each written as a text of one symbol.
ParseDefaultInsights ==
    <<"Take care of yourself and remember that it's okay to have ups and downs.">>
ExceptDefaultInsights ==
    <<"Thank you for sharing. Remember to take care of yourself.">>

\* result as initialised before the loop over the lines
ParseDefault ==
    [sentiment |-> neutral, mood_score |-> DefaultMoodScore,
     insights |-> ParseDefaultInsights, stress_indicators |-> <<>>]

\* the dict returned by the except clause
ExceptDefault ==
    [sentiment |-> neutral, mood_score |-> DefaultMoodScore,
     insights |-> ExceptDefaultInsights, stress_indicators |-> <<>>]

\* parse_mood_score with the score clamped to [1,10]
parse_mood_score_clamped(text) ==
    IF ~float(text).ok THEN DefaultMoodScore
    ELSE IF float(text).value < 10 THEN 10
    ELSE IF float(text).value > 100 THEN 100
    ELSE float(text).value

\* the Mood Score branch: float() of the text, 5.0 when float() raises
parse_mood_score(text) ==
    IF float(text).ok THEN float(text).value ELSE DefaultMoodScore

\* the Stress Indicators branch: assigns unless the text is "none" in any case
parse_stress_indicators(result, text) ==
    IF lower(text) # none
    THEN [result EXCEPT !.stress_indicators = <<text>>]
    ELSE result

\* parse_line with a Mood Score line that is no number resetting every field
parse_line_resetting(result, line) ==
    IF startswith(line, SentimentPrefix)
    THEN [result EXCEPT !.sentiment = lower(strip(after_colon(line)))]
    ELSE IF startswith(line, MoodScorePrefix)
    THEN IF float(strip(after_colon(line))).ok
         THEN [result EXCEPT !.mood_score = parse_mood_score(strip(after_colon(line)))]
         ELSE ParseDefault
    ELSE IF startswith(line, InsightPrefix)
    THEN [result EXCEPT !.insights = strip(after_colon(line))]
    ELSE IF startswith(line, StressPrefix)
    THEN parse_stress_indicators(result, strip(after_colon(line)))
    ELSE result

\* one pass of the body of `for line in lines`
parse_line(result, line) ==
    IF startswith(line, SentimentPrefix)
    THEN [result EXCEPT !.sentiment = lower(strip(after_colon(line)))]
    ELSE IF startswith(line, MoodScorePrefix)
    THEN [result EXCEPT !.mood_score = parse_mood_score(strip(after_colon(line)))]
    ELSE IF startswith(line, InsightPrefix)
    THEN [result EXCEPT !.insights = strip(after_colon(line))]
    ELSE IF startswith(line, StressPrefix)
    THEN parse_stress_indicators(result, strip(after_colon(line)))
    ELSE result

RECURSIVE parse_lines(_, _)
parse_lines(result, lines) ==
    IF lines = <<>>
    THEN result
    ELSE parse_lines(parse_line(result, Head(lines)), Tail(lines))

\* The Gateway call of a request either raises or returns a text.
GatewayError == [raised |-> TRUE, text |-> <<>>]
GatewayReply(t) == [raised |-> FALSE, text |-> t]

\* analyze_sentiment, given what chat.send_message did
analyze_sentiment(gateway) ==
    IF gateway.raised
    THEN ExceptDefault
    ELSE parse_lines(ParseDefault, split(strip(gateway.text), "\n"))

----------------------------------------------------------------------------
(* Timestamps: datetime.now, datetime.isoformat and the order of the strings *)

\* A datetime is a second and a microsecond; the date, hour and minute are a
\* prefix common to every timestamp of a run and are left out.
Epoch == [sec |-> 0, usec |-> 0]

\* The clock values a later datetime.now() can return: the handlers run on one
\* event loop, so two reads are at least a microsecond apart.
LaterTimes(t) ==
    {[sec |-> t.sec + 1, usec |-> 0]}
        \cup (IF t.usec < MaxUsec THEN {[sec |-> t.sec, usec |-> t.usec + 1]} ELSE {})

\* n as a decimal numeral of `width` digits
RECURSIVE Numeral(_, _)
Numeral(n, width) ==
    IF width = 0 THEN <<>> ELSE Numeral(n \div 10, width - 1) \o <<Digits[(n % 10) + 1]>>

\* datetime.isoformat(): SS[.ffffff]+00:00, the fraction left out when it is 0
isoformat(t) ==
    Numeral(t.sec, 2)
        \o (IF t.usec = 0 THEN <<>> ELSE <<".">> \o Numeral(t.usec, 6))
        \o <<"+","0","0",":","0","0">>

\* prepare_for_mongo: every datetime value of the dict becomes its ISO string
prepare_for_mongo(data) == [data EXCEPT !.created_at = isoformat(data.created_at)]

\* the characters of a timestamp in code-point order
CodePoints == <<"+", ".", "0","1","2","3","4","5","6","7","8","9", ":">>
CodePoint(c) == CHOOSE i \in 1..Len(CodePoints) : CodePoints[i] = c

\* a < b as the Store orders strings: by code point, a proper prefix first
RECURSIVE StrLess(_, _)
StrLess(a, b) ==
    IF b = <<>> THEN FALSE
    ELSE IF a = <<>> THEN TRUE
    ELSE IF Head(a) # Head(b) THEN CodePoint(Head(a)) < CodePoint(Head(b))
    ELSE StrLess(Tail(a), Tail(b))

----------------------------------------------------------------------------
(* The request handlers of POST /journal and POST /chat.  A handler runs     *)
(* from one await to the next in one step.                                  *)

NoText == <<>>

\* A handler's frame: its position, its request, what the Gateway did at each
\* of its calls so far, its locals, and the status and exception of its response
IdleReq ==
    [pc |-> "idle", kind |-> "none", user_id |-> "none", content |-> "none",
     calls |-> <<>>, ai_response |-> NoText, analysis |-> <<>>, doc |-> <<>>,
     status |-> 0, error |-> "none"]

\* The texts that follow a label in a Gateway reply
Texts ==
    { <<" ","8",".","5">>,
      <<" ","1","5">>,
      <<" ","N","o","n","e">>,
      <<" ","E","x","a","m","s"," ">> }

\* The labels that open a line: the four recognised ones and one that is not
Labels ==
    { SentimentPrefix, MoodScorePrefix, InsightPrefix, StressPrefix,
      <<"N","o","t","e",":">> }

ReplyLines == {l \o t : l \in Labels, t \in Texts}

RECURSIVE JoinLines(_)
JoinLines(ls) ==
    IF ls = <<>> THEN <<>>
    ELSE IF Len(ls) = 1 THEN ls[1]
    ELSE ls[1] \o <<"\n">> \o JoinLines(Tail(ls))

LineSeqs == UNION {[1..n -> ReplyLines] : n \in 0..MaxLines}

\* The replies of the Gateway to the analysis prompt: up to MaxLines lines,
\* and each one-line reply also with blank space around it
SentimentReplies ==
    {JoinLines(ls) : ls \in LineSeqs}
        \cup {<<"\n", " ">> \o l \o <<" ", "\n">> : l \in ReplyLines}

SentimentOutcomes == {GatewayError} \cup {GatewayReply(t) : t \in SentimentReplies}

\* The outcomes with a reply of no line or one line
ShortOutcomes == {GatewayError} \cup {GatewayReply(t) : t \in {<<>>} \cup ReplyLines}

\* The replies of the Gateway to a companion turn: free text, passed through
CompanionReplies == {<<"h","i">>}
CompanionOutcomes == {GatewayError} \cup {GatewayReply(t) : t \in CompanionReplies}

\* Requests are numbered in their order of arrival: r is the next to arrive
NextArrival(r) ==
    /\ r \in DOMAIN req
    /\ req[r].pc = "idle"
    /\ \A q \in 1..(r - 1) : req[q].pc # "idle"

\* JournalEntry without the update from the analysis: the fields stay None
JournalEntry_unanalyzed(user_id, content, analysis, created_at) ==
    [user_id |-> user_id, content |-> content,
     mood_score |-> <<>>, sentiment |-> <<>>, ai_insights |-> <<>>,
     created_at |-> created_at]

\* JournalEntry(**entry_dict).dict() with the analysis fields filled in
JournalEntry(user_id, content, analysis, created_at) ==
    [user_id |-> user_id, content |-> content,
     mood_score |-> <<analysis.mood_score>>,
     sentiment |-> <<analysis.sentiment>>,
     ai_insights |-> <<analysis.insights>>,
     created_at |-> created_at]

\* ChatMessage(...).dict(): the model has no mood_score field
ChatMessage(user_id, message, response, analysis, created_at) ==
    [user_id |-> user_id, message |-> message, response |-> response,
     sentiment |-> <<analysis.sentiment>>,
     created_at |-> created_at]

\* create_journal_entry up to `await chat.send_message` inside analyze_sentiment
create_journal_entry_start(r, user_id, content) ==
    /\ NextArrival(r)
    /\ req' = [req EXCEPT ![r] = [IdleReq EXCEPT !.pc = "analyze", !.kind = "journal",
                                     !.user_id = user_id, !.content = content]]
    /\ UNCHANGED <<journal_entries, chat_messages, mood_checkins, now, stats>>

\* create_journal_entry from the Gateway's answer to `await insert_one`
create_journal_entry_analyzed(r, gateway, t) ==
    /\ req[r].pc = "analyze"
    /\ req[r].kind = "journal"
    /\ LET analysis == analyze_sentiment(gateway)
           entry == JournalEntry(req[r].user_id, req[r].content, analysis, t)
       IN req' = [req EXCEPT ![r].pc = "insert", ![r].calls = Append(@, gateway),
                             ![r].analysis = <<analysis>>,
                             ![r].doc = <<prepare_for_mongo(entry)>>]
    /\ now' = t
    /\ UNCHANGED <<journal_entries, chat_messages, mood_checkins, stats>>

\* create_journal_entry from the Store's answer to the response
create_journal_entry_inserted(r, stored) ==
    /\ req[r].pc = "insert"
    /\ req[r].kind = "journal"
    /\ IF stored
       THEN /\ journal_entries' = Append(journal_entries, req[r].doc[1])
            /\ req' = [req EXCEPT ![r].pc = "done", ![r].status = 200]
       ELSE /\ journal_entries' = journal_entries
            /\ req' = [req EXCEPT ![r].pc = "done", ![r].status = 500,
                                  ![r].error = "StoreError"]
    /\ UNCHANGED <<chat_messages, mood_checkins, now, stats>>

\* chat_with_companion up to `await chat.send_message` of the companion chat
chat_with_companion_start(r, user_id, message) ==
    /\ NextArrival(r)
    /\ req' = [req EXCEPT ![r] = [IdleReq EXCEPT !.pc = "respond", !.kind = "chat",
                                     !.user_id = user_id, !.content = message]]
    /\ UNCHANGED <<journal_entries, chat_messages, mood_checkins, now, stats>>

\* chat_with_companion_responded with a failed companion call absorbed: an empty
\* reply stands in and the handler goes on
chat_with_companion_responded_absorbing(r, gateway) ==
    /\ req[r].pc = "respond"
    /\ req' = [req EXCEPT ![r].pc = "analyze", ![r].calls = Append(@, gateway),
                          ![r].ai_response = gateway.text]
    /\ UNCHANGED <<journal_entries, chat_messages, mood_checkins, now, stats>>

\* chat_with_companion from the companion's answer to the await inside
\* analyze_sentiment, or to the except clause when the Gateway raised
chat_with_companion_responded(r, gateway) ==
    /\ req[r].pc = "respond"
    /\ IF gateway.raised
       THEN req' = [req EXCEPT ![r].pc = "done", ![r].calls = Append(@, gateway),
                               ![r].status = 500, ![r].error = "GatewayError"]
       ELSE req' = [req EXCEPT ![r].pc = "analyze", ![r].calls = Append(@, gateway),
                               ![r].ai_response = gateway.text]
    /\ UNCHANGED <<journal_entries, chat_messages, mood_checkins, now, stats>>

\* chat_with_companion from the analysis Gateway's answer to `await insert_one`
chat_with_companion_analyzed(r, gateway, t) ==
    /\ req[r].pc = "analyze"
    /\ req[r].kind = "chat"
    /\ LET analysis == analyze_sentiment(gateway)
           msg == ChatMessage(req[r].user_id, req[r].content, req[r].ai_response,
                              analysis, t)
       IN req' = [req EXCEPT ![r].pc = "insert", ![r].calls = Append(@, gateway),
                             ![r].analysis = <<analysis>>,
                             ![r].doc = <<prepare_for_mongo(msg)>>]
    /\ now' = t
    /\ UNCHANGED <<journal_entries, chat_messages, mood_checkins, stats>>

\* chat_with_companion from the Store's answer to the response
chat_with_companion_inserted(r, stored) ==
    /\ req[r].pc = "insert"
    /\ req[r].kind = "chat"
    /\ IF stored
       THEN /\ chat_messages' = Append(chat_messages, req[r].doc[1])
            /\ req' = [req EXCEPT ![r].pc = "done", ![r].status = 200]
       ELSE /\ chat_messages' = chat_messages
            /\ req' = [req EXCEPT ![r].pc = "done", ![r].status = 500,
                                  ![r].error = "StoreError"]
    /\ UNCHANGED <<journal_entries, mood_checkins, now, stats>>

NoStats == <<>>

Init ==
    /\ journal_entries = <<>>
    /\ chat_messages = <<>>
    /\ mood_checkins = <<>>
    /\ now = Epoch
    /\ req = [r \in Reqs |-> IdleReq]
    /\ stats = NoStats

\* POST /journal and POST /chat requests whose handlers overlap; the analysis
\* Gateway raises or answers with at most one line
Next ==
    \E r \in Reqs :
        \/ \E u \in Users, c \in Contents : create_journal_entry_start(r, u, c)
        \/ \E g \in ShortOutcomes, t \in LaterTimes(now) :
               create_journal_entry_analyzed(r, g, t)
        \/ \E stored \in BOOLEAN : create_journal_entry_inserted(r, stored)
        \/ \E u \in Users, c \in Contents : chat_with_companion_start(r, u, c)
        \/ \E g \in CompanionOutcomes : chat_with_companion_responded(r, g)
        \/ \E g \in ShortOutcomes, t \in LaterTimes(now) :
               chat_with_companion_analyzed(r, g, t)
        \/ \E stored \in BOOLEAN : chat_with_companion_inserted(r, stored)

Spec == Init /\ [][Next]_vars

\* One request at a time, the analysis Gateway answering with any of the replies
NextParse ==
    \/ \E u \in Users, c \in Contents : create_journal_entry_start(1, u, c)
    \/ \E g \in SentimentOutcomes, t \in LaterTimes(now) :
           create_journal_entry_analyzed(1, g, t)
    \/ \E stored \in BOOLEAN : create_journal_entry_inserted(1, stored)
    \/ \E u \in Users, c \in Contents : chat_with_companion_start(1, u, c)
    \/ \E g \in CompanionOutcomes : chat_with_companion_responded(1, g)
    \/ \E g \in SentimentOutcomes, t \in LaterTimes(now) :
           chat_with_companion_analyzed(1, g, t)
    \/ \E stored \in BOOLEAN : chat_with_companion_inserted(1, stored)

SpecParse == Init /\ [][NextParse]_vars

----------------------------------------------------------------------------
(* POST /mood-checkin and GET /stats/{user_id} *)

\* mood_level and stress_level: the 1-5 scale (the top of the scale)
MaxLevel == 5
Levels == 1..MaxLevel

\* MoodCheckIn(**checkin.dict()).dict(); energy_level and notes are stored and
\* never read by the analytics, and are left out
MoodCheckIn(user_id, mood_level, stress_level, created_at) ==
    [user_id |-> user_id, mood_level |-> mood_level,
     stress_level |-> stress_level, created_at |-> created_at]

\* create_mood_checkin up to `await insert_one`
create_mood_checkin_start(r, user_id, mood_level, stress_level, t) ==
    /\ NextArrival(r)
    /\ LET checkin == MoodCheckIn(user_id, mood_level, stress_level, t)
       IN req' = [req EXCEPT ![r] = [IdleReq EXCEPT !.pc = "insert", !.kind = "checkin",
                                        !.user_id = user_id,
                                        !.doc = <<prepare_for_mongo(checkin)>>]]
    /\ now' = t
    /\ stats' = NoStats
    /\ UNCHANGED <<journal_entries, chat_messages, mood_checkins>>

\* create_mood_checkin from the Store's answer to the response
create_mood_checkin_inserted(r, stored) ==
    /\ r \in DOMAIN req
    /\ req[r].pc = "insert"
    /\ req[r].kind = "checkin"
    /\ IF stored
       THEN /\ mood_checkins' = Append(mood_checkins, req[r].doc[1])
            /\ req' = [req EXCEPT ![r].pc = "done", ![r].doc = <<>>, ![r].status = 200]
       ELSE /\ mood_checkins' = mood_checkins
            /\ req' = [req EXCEPT ![r].pc = "done", ![r].doc = <<>>, ![r].status = 500,
                                  ![r].error = "StoreError"]
    /\ stats' = NoStats
    /\ UNCHANGED <<journal_entries, chat_messages, now>>

\* find(filter): the documents of a collection owned by user_id
find_user(collection, user_id) ==
    SelectSeq(collection, LAMBDA d : d.user_id = user_id)

\* count_documents({"user_id": user_id})
count_documents(collection, user_id) == Len(find_user(collection, user_id))

\* d put in its place in a sequence that is in descending order of created_at
RECURSIVE InsertDesc(_, _)
InsertDesc(d, sorted) ==
    IF sorted = <<>> THEN <<d>>
    ELSE IF StrLess(d.created_at, Head(sorted).created_at)
    THEN <<Head(sorted)>> \o InsertDesc(d, Tail(sorted))
    ELSE <<d>> \o sorted

\* .sort("created_at", -1)
RECURSIVE sort_desc(_)
sort_desc(docs) ==
    IF docs = <<>> THEN <<>> ELSE InsertDesc(Head(docs), sort_desc(Tail(docs)))

\* .limit(n).to_list(n)
limit(docs, n) == SubSeq(docs, 1, IF Len(docs) < n THEN Len(docs) ELSE n)

\* the number of check-ins get_user_stats fetches
RecentLimit == 10

\* recent_checkins without the sort: the first documents in insertion order
recent_checkins_unsorted(collection, user_id) ==
    limit(find_user(collection, user_id), RecentLimit)

\* recent_checkins with one more check-in fetched
recent_checkins_eleven(collection, user_id) ==
    limit(sort_desc(find_user(collection, user_id)), RecentLimit + 1)

\* recent_checkins of get_user_stats
recent_checkins(collection, user_id) ==
    limit(sort_desc(find_user(collection, user_id)), RecentLimit)

RECURSIVE SumOf(_, _)
SumOf(docs, field) ==
    IF docs = <<>> THEN 0 ELSE Head(docs)[field] + SumOf(Tail(docs), field)

\* average with 0 for an empty list
average_zero(docs, field) ==
    IF docs # <<>>
    THEN [num |-> SumOf(docs, field), den |-> Len(docs)]
    ELSE [num |-> 0, den |-> 1]

\* sum(...) / len(recent) if recent else 3.0, as the exact fraction num/den
average(docs, field) ==
    IF docs # <<>>
    THEN [num |-> SumOf(docs, field), den |-> Len(docs)]
    ELSE [num |-> 3, den |-> 1]

\* avg > x and avg < x for x given in tenths
Above(avg, tenths) == 10 * avg.num > tenths * avg.den
Below(avg, tenths) == 10 * avg.num < tenths * avg.den

\* round1 with a tie going up
round1_half_up(avg) == (20 * avg.num + avg.den) \div (2 * avg.den)

\* round(avg, 1) in tenths: Python rounds to the nearest tenth and a tie to the
\* even one; the ties of these means (x.25, x.75) are exact as floats
round1(avg) ==
    LET q == (10 * avg.num) \div avg.den
        rem == (10 * avg.num) % avg.den
    IN IF 2 * rem < avg.den THEN q
       ELSE IF 2 * rem > avg.den THEN q + 1
       ELSE IF q % 2 = 0 THEN q ELSE q + 1

\* the recommendations list of get_user_stats
recommendations(avg_mood, avg_stress) ==
    LET stress == IF Above(avg_stress, 35)
                  THEN <<"Consider taking regular breaks during study sessions",
                         "Try deep breathing exercises when feeling overwhelmed">>
                  ELSE <<>>
        mood == IF Below(avg_mood, 25)
                THEN <<"Engage in activities that bring you joy",
                       "Consider reaching out to friends or counselors">>
                ELSE <<>>
    IN IF stress \o mood = <<>>
       THEN <<"Keep up the great work on your wellness journey!">>
       ELSE stress \o mood

\* recent_patterns with the mood patterns in the else branch of the stress test
recent_patterns_exclusive(avg_mood, avg_stress) ==
    IF Above(avg_stress, 35) THEN <<"Elevated stress levels detected">>
    ELSE IF Above(avg_mood, 35) THEN <<"Generally positive mood">>
    ELSE IF Below(avg_mood, 25) THEN <<"Lower mood levels - consider self-care">>
    ELSE <<>>

\* the recent_patterns list of get_user_stats
recent_patterns(avg_mood, avg_stress) ==
    (IF Above(avg_stress, 35) THEN <<"Elevated stress levels detected">> ELSE <<>>)
        \o (IF Above(avg_mood, 35) THEN <<"Generally positive mood">>
            ELSE IF Below(avg_mood, 25) THEN <<"Lower mood levels - consider self-care">>
            ELSE <<>>)

\* the UserStats returned by get_user_stats for the Store as it is
UserStats(user_id) ==
    LET recent == recent_checkins(mood_checkins, user_id)
        avg_mood == average(recent, "mood_level")
        avg_stress == average(recent, "stress_level")
    IN [user_id |-> user_id,
        total_entries |-> count_documents(journal_entries, user_id),
        avg_mood |-> round1(avg_mood),
        avg_stress |-> round1(avg_stress),
        recent_patterns |-> recent_patterns(avg_mood, avg_stress),
        recommendations |-> recommendations(avg_mood, avg_stress)]

\* get_user_stats: the response of GET /stats/{user_id}
get_user_stats(user_id) ==
    /\ stats' = <<UserStats(user_id)>>
    /\ UNCHANGED <<journal_entries, chat_messages, mood_checkins, now, req>>

\* The samples of the check-ins made during a run
NewSamples ==
    { [mood_level |-> 1, stress_level |-> 5],
      [mood_level |-> 2, stress_level |-> 4],
      [mood_level |-> 3, stress_level |-> 3],
      [mood_level |-> 3, stress_level |-> 4],
      [mood_level |-> 4, stress_level |-> 3],
      [mood_level |-> 5, stress_level |-> 1] }

\* What the check-ins of a user looked like before a run: all alike, or all
\* alike but the oldest
HistProfiles ==
    { [mood_level |-> 3, stress_level |-> 3],
      [mood_level |-> 2, stress_level |-> 4],
      [mood_level |-> 4, stress_level |-> 2] }

OldestProfile == [mood_level |-> 5, stress_level |-> 5]

HistLens == {0, 2, MaxHist - 1, MaxHist}

\* The k-th reading of a clock that is read every microsecond or every second
TimeAt(k) == [sec |-> k \div 2, usec |-> k % 2]

\* n journal entries of u1 whose analysis fell back to the default
JournalHistory(n) ==
    [i \in 1..n |->
        prepare_for_mongo(JournalEntry("u1", "c1", ExceptDefault, TimeAt(i)))]

\* h check-ins of u1 made after n readings of the clock, the oldest of profile
\* `first`
CheckinHistory(h, first, rest, n) ==
    [i \in 1..h |->
        prepare_for_mongo(MoodCheckIn("u1",
            (IF i = 1 THEN first ELSE rest).mood_level,
            (IF i = 1 THEN first ELSE rest).stress_level,
            TimeAt(n + i)))]

MaxJournal == 1

\* The Store after earlier requests, no request in flight
InitStats ==
    /\ chat_messages = <<>>
    /\ \E n \in 0..MaxJournal, h \in HistLens, rest \in HistProfiles :
         \E first \in {rest, OldestProfile} :
           /\ journal_entries = JournalHistory(n)
           /\ mood_checkins = CheckinHistory(h, first, rest, n)
           /\ now = TimeAt(n + h)
    /\ req = [r \in 1..MaxNew |-> IdleReq]
    /\ stats = NoStats

NextStats ==
    \/ \E r \in 1..MaxNew, u \in Users, c \in NewSamples, t \in LaterTimes(now) :
           create_mood_checkin_start(r, u, c.mood_level, c.stress_level, t)
    \/ \E r \in 1..MaxNew, stored \in BOOLEAN : create_mood_checkin_inserted(r, stored)
    \/ \E u \in Users : get_user_stats(u)

SpecStats == InitStats /\ [][NextStats]_vars

\* The most check-ins a user has in the Store when the statistics are asked
\* for: one more than get_user_stats fetches
MaxSamples == 11

\* The i-th of n levels that sum to s and differ by at most one, the lower
\* ones first
SpreadLevel(n, s, i) ==
    IF i <= n - (s % n) THEN s \div n ELSE (s \div n) + 1

\* n check-ins of u1, one per reading of the clock, whose mood levels sum to
\* mood_sum and rise with time and whose stress levels sum to stress_sum and
\* fall with time
SampleHistory(n, mood_sum, stress_sum) ==
    [i \in 1..n |->
        prepare_for_mongo(MoodCheckIn("u1",
            SpreadLevel(n, mood_sum, i),
            SpreadLevel(n, stress_sum, n + 1 - i),
            TimeAt(i)))]

\* The sums n levels of the 1-5 scale can have
LevelSums(n) == n..(MaxLevel * n)

\* The Store after n check-ins of u1 of every sum of mood and of stress levels,
\* no request in flight
InitMeans ==
    /\ chat_messages = <<>>
    /\ journal_entries = <<>>
    /\ \E n \in 0..MaxSamples :
         \E mood_sum \in LevelSums(n), stress_sum \in LevelSums(n) :
           /\ mood_checkins = SampleHistory(n, mood_sum, stress_sum)
           /\ now = TimeAt(n)
    /\ req = [r \in 1..MaxNew |-> IdleReq]
    /\ stats = NoStats

NextMeans == \E u \in Users : get_user_stats(u)

SpecMeans == InitMeans /\ [][NextMeans]_vars

----------------------------------------------------------------------------
(* Properties of analyze_sentiment, checked under SpecParse *)

\* the requests whose analyze_sentiment call has returned
Analyzed == {r \in DOMAIN req : req[r].analysis # <<>>}

\* what the Gateway did at the analysis call of r, and what analyze_sentiment
\* returned to r
SentimentCall(r) == req[r].calls[Len(req[r].calls)]
Result(r) == req[r].analysis[1]

\* p occurs somewhere in text
Contains(text, p) ==
    \E i \in 1..(Len(text) - Len(p) + 1) : SubSeq(text, i, i + Len(p) - 1) = p

RecognizedPrefixes == {SentimentPrefix, MoodScorePrefix, InsightPrefix, StressPrefix}

\* the lines of a reply that open with label p, in their order
LinesWith(text, p) ==
    SelectSeq(split(strip(text), "\n"), LAMBDA l : startswith(l, p))

\* the text after the label of the last line of ls
LastText(ls) == strip(after_colon(ls[Len(ls)]))

\* C1 (as claimed): whenever the Gateway call fails, or the reply is empty, or
\* the reply contains none of the four recognized prefixes, analyze returns one
\* and the same default tuple: the one returned for an empty reply.
C1_OneDefaultTuple ==
    \A r \in Analyzed :
        LET g == SentimentCall(r) IN
        (\/ g.raised
         \/ strip(g.text) = <<>>
         \/ \A p \in RecognizedPrefixes : ~Contains(g.text, p))
            => Result(r) = analyze_sentiment(GatewayReply(<<>>))

\* C2 (as claimed): the mood score of every result lies in [1,10].
C2_MoodScoreInRange ==
    \A r \in Analyzed : 10 <= Result(r).mood_score /\ Result(r).mood_score <= 100

\* C2 (amended): the mood score is 5.0 when the Gateway fails, when the reply
\* has no Mood Score line or when the text of its last Mood Score line is not a
\* number; otherwise it is the number of the last Mood Score line as parsed,
\* with no clamping to [1,10].
C2_MoodScoreAsParsed ==
    \A r \in Analyzed :
        LET g == SentimentCall(r)
            ml == IF g.raised THEN <<>> ELSE LinesWith(g.text, MoodScorePrefix)
        IN IF ml = <<>> \/ ~float(LastText(ml)).ok
           THEN Result(r).mood_score = 50
           ELSE Result(r).mood_score = float(LastText(ml)).value

\* C2 witness: a reply with the line `Mood Score: 15` was analysed and the
\* result carries 15.0
C2_ScoreOutOfRange ==
    \E r \in Analyzed :
        /\ ~SentimentCall(r).raised
        /\ LinesWith(SentimentCall(r).text, MoodScorePrefix) # <<>>
        /\ Result(r).mood_score = 150

\* the value of `field` that the lines labelled p of a reply give on their own
OwnLines(text, p, field) ==
    analyze_sentiment(GatewayReply(JoinLines(LinesWith(text, p))))[field]

\* C6: each field of the result is set by the lines that carry its own label
\* and by no other line, in whatever order the lines come, and keeps its
\* default when the reply has no such line; the reply `Mood Score: 8.5` alone
\* gives (neutral, 8.5, default insight, no indicators), and a reply that is one
\* Mood Score line whose text is no number gives the defaults.
C6_LineIndependent ==
    \A r \in Analyzed :
        LET g == SentimentCall(r)
            res == Result(r)
        IN ~g.raised =>
            /\ res.sentiment = OwnLines(g.text, SentimentPrefix, "sentiment")
            /\ res.mood_score = OwnLines(g.text, MoodScorePrefix, "mood_score")
            /\ res.insights = OwnLines(g.text, InsightPrefix, "insights")
            /\ res.stress_indicators = OwnLines(g.text, StressPrefix, "stress_indicators")
            /\ (LinesWith(g.text, SentimentPrefix) = <<>> => res.sentiment = neutral)
            /\ (LinesWith(g.text, MoodScorePrefix) = <<>> => res.mood_score = 50)
            /\ (LinesWith(g.text, InsightPrefix) = <<>>
                    => res.insights = ParseDefaultInsights)
            /\ (LinesWith(g.text, StressPrefix) = <<>> => res.stress_indicators = <<>>)
            /\ (strip(g.text) = MoodScorePrefix \o <<" ","8",".","5">>
                    => res = [sentiment |-> neutral, mood_score |-> 85,
                              insights |-> ParseDefaultInsights,
                              stress_indicators |-> <<>>])
            /\ ((/\ Len(split(strip(g.text), "\n")) = 1
                 /\ startswith(strip(g.text), MoodScorePrefix)
                 /\ ~float(strip(after_colon(strip(g.text)))).ok)
                    => res = ParseDefault)

\* C6 witness: a reply of two lines, a Sentiment line and then a Mood Score line
\* whose text is no number, was analysed: the sentiment is the line's, the mood
\* score the default
C6_PartlyDefaulted ==
    \E r \in Analyzed :
        LET g == SentimentCall(r) IN
        /\ ~g.raised
        /\ Len(split(strip(g.text), "\n")) = 2
        /\ startswith(split(strip(g.text), "\n")[1], SentimentPrefix)
        /\ startswith(split(strip(g.text), "\n")[2], MoodScorePrefix)
        /\ ~float(LastText(split(strip(g.text), "\n"))).ok
        /\ Result(r).sentiment # neutral
        /\ Result(r).mood_score = 50

\* C7 (as claimed): when the reply has a Stress Indicators line, whatever lines
\* precede it, the text t of the last such line decides the list: empty when t
\* is "none" in any letter case, the one element t when t is another non-empty
\* text.
C7_LastStressLineDecides ==
    \A r \in Analyzed :
        LET g == SentimentCall(r)
            sl == IF g.raised THEN <<>> ELSE LinesWith(g.text, StressPrefix)
        IN sl # <<>> =>
            IF lower(LastText(sl)) = none
            THEN Result(r).stress_indicators = <<>>
            ELSE LastText(sl) # <<>> => Result(r).stress_indicators = <<LastText(sl)>>

----------------------------------------------------------------------------
(* Properties of the journal and chat handlers, checked under Spec *)

\* document d has field f and its value is not None
HasValue(d, f) == f \in DOMAIN d /\ d[f] # <<>>

\* the places of collection where document d is stored
PlacesOf(collection, d) == {i \in 1..Len(collection) : collection[i] = d}

\* C4 (as claimed): every record persisted by create_journal_entry and by
\* chat_with_companion carries a non-null sentiment label and a non-null mood
\* score.
C4_AllCarrySentimentAndMoodScore ==
    /\ \A i \in 1..Len(journal_entries) :
           HasValue(journal_entries[i], "sentiment")
               /\ HasValue(journal_entries[i], "mood_score")
    /\ \A i \in 1..Len(chat_messages) :
           HasValue(chat_messages[i], "sentiment")
               /\ HasValue(chat_messages[i], "mood_score")

\* C4 (amended): every stored journal entry carries a non-null sentiment label
\* and a non-null mood score, every stored chat message a non-null sentiment
\* label (a chat message has no mood score field), and a journal entry is in
\* the Store only when the analyze call of its request has returned, with the
\* sentiment and mood score that call returned.
C4_PersistedAfterAnalysis ==
    /\ \A i \in 1..Len(journal_entries) :
           /\ HasValue(journal_entries[i], "sentiment")
           /\ HasValue(journal_entries[i], "mood_score")
           /\ \E r \in Analyzed :
                  /\ req[r].kind = "journal"
                  /\ req[r].doc = <<journal_entries[i]>>
                  /\ journal_entries[i].sentiment = <<Result(r).sentiment>>
                  /\ journal_entries[i].mood_score = <<Result(r).mood_score>>
    /\ \A i \in 1..Len(chat_messages) :
           /\ HasValue(chat_messages[i], "sentiment")
           /\ \E r \in Analyzed :
                  /\ req[r].kind = "chat"
                  /\ req[r].doc = <<chat_messages[i]>>
                  /\ chat_messages[i].sentiment = <<Result(r).sentiment>>

\* C4 witness: a journal entry and a chat message are stored
C4_BothPersisted == Len(journal_entries) >= 1 /\ Len(chat_messages) >= 1

\* C5: a chat request whose companion call failed ends with the Gateway's error
\* in its handler, a failure response, no reply substituted and no chat message
\* stored; a chat request whose analysis call alone failed succeeds, with
\* exactly one chat message stored, its sentiment "neutral"; a journal request
\* whose analysis call failed succeeds too, with its entry stored (the Store
\* not failing).
C5_FailureByCaller ==
    /\ Len(chat_messages) =
           Cardinality({r \in DOMAIN req : req[r].kind = "chat" /\ req[r].status = 200})
    /\ \A r \in DOMAIN req :
        /\ (req[r].kind = "chat" /\ req[r].calls # <<>> /\ req[r].calls[1].raised)
               => /\ req[r].pc = "done"
                  /\ req[r].status = 500
                  /\ req[r].error = "GatewayError"
                  /\ req[r].ai_response = NoText
                  /\ req[r].analysis = <<>>
                  /\ req[r].doc = <<>>
        /\ (/\ req[r].kind = "chat"
            /\ req[r].pc = "done"
            /\ Len(req[r].calls) = 2
            /\ req[r].calls[2].raised
            /\ req[r].error # "StoreError")
               => /\ req[r].status = 200
                  /\ Cardinality(PlacesOf(chat_messages, req[r].doc[1])) = 1
                  /\ req[r].doc[1].sentiment = <<neutral>>
                  /\ req[r].doc[1].response = req[r].calls[1].text
        /\ (/\ req[r].kind = "journal"
            /\ req[r].pc = "done"
            /\ req[r].calls[1].raised
            /\ req[r].error # "StoreError")
               => /\ req[r].status = 200
                  /\ Cardinality(PlacesOf(journal_entries, req[r].doc[1])) = 1

\* C5 witness: of two chat requests, one ended on a failed companion call, the
\* other succeeded after a failed analysis call
C5_BothFailures ==
    \E r \in DOMAIN req, q \in DOMAIN req :
        /\ req[r].kind = "chat" /\ req[r].calls # <<>> /\ req[r].calls[1].raised
        /\ req[r].pc = "done"
        /\ req[q].kind = "chat" /\ Len(req[q].calls) = 2 /\ req[q].calls[2].raised
        /\ req[q].status = 200

----------------------------------------------------------------------------
(* Properties of get_user_stats, checked under SpecStats *)

\* the exact means of the check-ins get_user_stats fetches for the user of the
\* latest response
FetchedMood == average(recent_checkins(mood_checkins, stats[1].user_id), "mood_level")
FetchedStress == average(recent_checkins(mood_checkins, stats[1].user_id), "stress_level")

\* the fraction avg is exactly the value given in tenths
Exactly(avg, tenths) == 10 * avg.num = tenths * avg.den

ElevatedStress == "Elevated stress levels detected"
PositiveMood == "Generally positive mood"
LowerMood == "Lower mood levels - consider self-care"

StressAndMoodAdvice ==
    <<"Consider taking regular breaks during study sessions",
      "Try deep breathing exercises when feeling overwhelmed",
      "Engage in activities that bring you joy",
      "Consider reaching out to friends or counselors">>

Affirmation == <<"Keep up the great work on your wellness journey!">>

Elements(seq) == {seq[i] : i \in 1..Len(seq)}

\* C3 (as claimed): whenever the average stress is above 3.5 the patterns are
\* the stress pattern alone, the lower-mood pattern is returned only when the
\* average stress is at most 3.5 and the average mood below 2.5, and for stress
\* 4.0 and mood 2.0 the recommendations are the two stress strings and then the
\* two mood strings.
C3_StressPatternAlone ==
    stats # NoStats =>
        /\ (Above(FetchedStress, 35) => stats[1].recent_patterns = <<ElevatedStress>>)
        /\ (LowerMood \in Elements(stats[1].recent_patterns)
                => ~Above(FetchedStress, 35) /\ Below(FetchedMood, 25))
        /\ (Exactly(FetchedStress, 40) /\ Exactly(FetchedMood, 20)
                => stats[1].recommendations = StressAndMoodAdvice)

\* C3 (amended): whenever the average stress is above 3.5 the patterns are the
\* stress pattern followed by the mood pattern that applies (positive above
\* 3.5, lower below 2.5, none between); the lower-mood pattern is returned
\* exactly when the average mood is below 2.5, whatever the stress; for stress
\* 4.0 and mood 2.0 the patterns are the stress and the lower-mood pattern and
\* the recommendations the two stress strings and then the two mood strings.
C3_StressPatternBesideMood ==
    stats # NoStats =>
        /\ (Above(FetchedStress, 35) =>
               stats[1].recent_patterns =
                   <<ElevatedStress>>
                       \o (IF Above(FetchedMood, 35) THEN <<PositiveMood>>
                           ELSE IF Below(FetchedMood, 25) THEN <<LowerMood>>
                           ELSE <<>>))
        /\ (LowerMood \in Elements(stats[1].recent_patterns) <=> Below(FetchedMood, 25))
        /\ (Exactly(FetchedStress, 40) /\ Exactly(FetchedMood, 20)
                => /\ stats[1].recent_patterns = <<ElevatedStress, LowerMood>>
                   /\ stats[1].recommendations = StressAndMoodAdvice)

\* C3 witness: the statistics of check-ins whose stress averages 4.0 and whose
\* mood averages 2.0 were returned
C3_StressFourMoodTwo ==
    /\ stats # NoStats
    /\ Exactly(FetchedStress, 40)
    /\ Exactly(FetchedMood, 20)
    /\ stats[1].avg_stress = 40
    /\ stats[1].avg_mood = 20

\* avg to the nearest tenth, a tie going away from zero (avg is positive)
HalfAwayFromZero(avg) == (20 * avg.num + avg.den) \div (2 * avg.den)

\* C8 (as claimed): the averages returned are the exact means rounded to one
\* decimal place, a tie going away from zero ([3,3,3,4] gives 3.3).
C8_RoundsHalfAwayFromZero ==
    stats # NoStats =>
        /\ stats[1].avg_mood = HalfAwayFromZero(FetchedMood)
        /\ stats[1].avg_stress = HalfAwayFromZero(FetchedStress)

\* v, in tenths, is a tenth nearest to avg, and the even one of the two when avg
\* lies midway between two tenths
NearestTenthTiesToEven(v, avg) ==
    LET d == 2 * (v * avg.den - 10 * avg.num) IN
    /\ 0 - avg.den <= d
    /\ d <= avg.den
    /\ (d = avg.den \/ d = 0 - avg.den) => v % 2 = 0

\* C8 (amended): the averages returned are the exact means rounded to the
\* nearest tenth, a tie going to the even tenth: [3,4,4] gives 3.7 and
\* [3,3,3,4], mean 3.25, gives 3.2.
C8_RoundsHalfToEven ==
    stats # NoStats =>
        /\ NearestTenthTiesToEven(stats[1].avg_mood, FetchedMood)
        /\ NearestTenthTiesToEven(stats[1].avg_stress, FetchedStress)
        /\ (FetchedMood = [num |-> 11, den |-> 3] => stats[1].avg_mood = 37)
        /\ (FetchedMood = [num |-> 13, den |-> 4] => stats[1].avg_mood = 32)

\* C8 witness: the statistics of four check-ins whose moods sum to 13 (mean
\* 3.25) were returned with the average 3.2
C8_TieToEven ==
    /\ stats # NoStats
    /\ FetchedMood = [num |-> 13, den |-> 4]
    /\ stats[1].avg_mood = 32

\* the places of the check-ins of user u in the Store
Owned(u) == {i \in 1..Len(mood_checkins) : mood_checkins[i].user_id = u}

\* C9: for an owner with no check-in the response is avg_mood 3.0, avg_stress
\* 3.0, the affirming string alone and no pattern, whatever journal entries the
\* owner has and whatever check-ins other owners have.
C9_NoCheckins ==
    (stats # NoStats /\ Owned(stats[1].user_id) = {}) =>
        /\ stats[1].avg_mood = 30
        /\ stats[1].avg_stress = 30
        /\ stats[1].recommendations = Affirmation
        /\ stats[1].recent_patterns = <<>>

\* C9 witness: the statistics of an owner with a journal entry and no check-in
\* were returned while another owner has check-ins
C9_JournalButNoCheckins ==
    /\ stats # NoStats
    /\ Owned(stats[1].user_id) = {}
    /\ stats[1].total_entries >= 1
    /\ Len(mood_checkins) >= 1

\* datetime.fromisoformat of a stored timestamp
fromisoformat(s) ==
    [sec |-> NatVal(SubSeq(s, 1, 2)),
     usec |-> IF s[3] = "." THEN NatVal(SubSeq(s, 4, 9)) ELSE 0]

\* check-in i was created after check-in j
CreatedAfter(i, j) ==
    LET a == fromisoformat(mood_checkins[i].created_at)
        b == fromisoformat(mood_checkins[j].created_at)
    IN a.sec > b.sec \/ (a.sec = b.sec /\ a.usec > b.usec)

\* the check-ins of u with fewer than 10 check-ins of u created after them
TenMostRecent(u) ==
    {i \in Owned(u) : Cardinality({j \in Owned(u) : CreatedAfter(j, i)}) < 10}

RECURSIVE SumAt(_, _)
SumAt(places, field) ==
    IF places = {} THEN 0
    ELSE LET i == CHOOSE i \in places : TRUE
         IN mood_checkins[i][field] + SumAt(places \ {i}, field)

MeanAt(places, field) ==
    IF places = {} THEN [num |-> 3, den |-> 1]
    ELSE [num |-> SumAt(places, field), den |-> Cardinality(places)]

\* C10: the response of get_user_stats(owner) is the one its owner's 10 most
\* recent check-ins by creation time give: no check-in of another owner and no
\* older check-in of the owner enters the averages, the patterns or the
\* recommendations, so an 11th check-in takes the oldest out of the average.
C10_TenMostRecentDecide ==
    stats # NoStats =>
        LET recent == TenMostRecent(stats[1].user_id)
            mood == MeanAt(recent, "mood_level")
            stress == MeanAt(recent, "stress_level")
        IN /\ stats[1].avg_mood = round1(mood)
           /\ stats[1].avg_stress = round1(stress)
           /\ stats[1].recent_patterns = recent_patterns(mood, stress)
           /\ stats[1].recommendations = recommendations(mood, stress)

\* C10 witness: the statistics of an owner with more than 10 check-ins were
\* returned, while another owner has a check-in, and the average mood is not
\* the one all the owner's check-ins would give
C10_EleventhLeftOut ==
    /\ stats # NoStats
    /\ Cardinality(Owned(stats[1].user_id)) > 10
    /\ Len(mood_checkins) > Cardinality(Owned(stats[1].user_id))
    /\ stats[1].avg_mood # round1(MeanAt(Owned(stats[1].user_id), "mood_level"))

----------------------------------------------------------------------------
(* The thresholds of get_user_stats against the averages it returns, checked
   under SpecMeans *)

StressAdvice == SubSeq(StressAndMoodAdvice, 1, 2)
MoodAdvice == SubSeq(StressAndMoodAdvice, 3, 4)

\* the strings of advice are all among the recommendations returned
Returned(advice) == Elements(advice) \subseteq Elements(stats[1].recommendations)

\* C11: the thresholds are tested on the unrounded means and yet agree with the
\* rounded averages in the response, for the 1 to 10 check-ins fetched of every
\* sum of levels: the two stress recommendations and the stress pattern are
\* returned exactly when the returned avg_stress is above 3.5, the two mood
\* recommendations exactly when the returned avg_mood is below 2.5, and the
\* affirming string exactly when neither pair is; the recommendations are never
\* empty and the affirming string never stands beside another recommendation.
C11_ThresholdsAgreeWithReturned ==
    stats # NoStats =>
        /\ Above(FetchedStress, 35) <=> stats[1].avg_stress > 35
        /\ Below(FetchedMood, 25) <=> stats[1].avg_mood < 25
        /\ Returned(StressAdvice) <=> stats[1].avg_stress > 35
        /\ ElevatedStress \in Elements(stats[1].recent_patterns)
               <=> stats[1].avg_stress > 35
        /\ Returned(MoodAdvice) <=> stats[1].avg_mood < 25
        /\ Returned(Affirmation) <=> ~Returned(StressAdvice) /\ ~Returned(MoodAdvice)
        /\ stats[1].recommendations # <<>>
        /\ Returned(Affirmation) => stats[1].recommendations = Affirmation
        /\ stats[1].recommendations =
               IF stats[1].avg_stress > 35 \/ stats[1].avg_mood < 25
               THEN (IF stats[1].avg_stress > 35 THEN StressAdvice ELSE <<>>)
                        \o (IF stats[1].avg_mood < 25 THEN MoodAdvice ELSE <<>>)
               ELSE Affirmation

\* C11 witness: the statistics of an owner with 11 check-ins were returned, the
\* 10 fetched having the stress mean 3.6 and the mood mean 2.4, the nearest to
\* the thresholds that 10 samples come, with all four recommendations
C11_TenSamplesNearThresholds ==
    /\ stats # NoStats
    /\ Cardinality(Owned(stats[1].user_id)) = 11
    /\ FetchedStress = [num |-> 36, den |-> 10]
    /\ FetchedMood = [num |-> 24, den |-> 10]
    /\ stats[1].avg_stress = 36
    /\ stats[1].avg_mood = 24
    /\ stats[1].recommendations = StressAndMoodAdvice

====
